---- MODULE Spec2Model ----
(***************************************************************************)
(* NewsRiver client (assets/app.js): strong de-dupe, persisted first-seen  *)
(* sequence, stable ordering.  A JavaScript string is modelled as the      *)
(* sequence of its characters, so that the string functions of the source  *)
(* (startsWith, indexOf, slice, toLowerCase, regular expressions) are      *)
(* computed as the engine computes them.                                   *)
(***************************************************************************)
EXTENDS Integers, Sequences, FiniteSets, TLC

\* ------------------------------------------------------------------------
\* Bounds of the model
\* ------------------------------------------------------------------------
\* longest raw item list of one ordering cycle
MaxItems == 2
\* the sequence-store cycles stop once the persisted counter reaches this
MaxCounter == 4
\* longest raw item list handed to the pure de-dupe functions
MaxPureItems == 2
\* largest group of same-key items handed to dedupeItems
MaxGroup == 3
\* longest raw item list of a cycle that runs beside another browser tab's
MaxTabItems == 1
\* longest list of items known by their url alone handed to dedupeItems
MaxUrlItems == 2
\* longest feed the page of bootstrap and autoRefresh fetches
MaxPageItems == 3

\* ------------------------------------------------------------------------
\* JavaScript string primitives on character sequences
\* ------------------------------------------------------------------------
UpperChars ==
  <<"A","B","C","D","E","F","G","H","I","J","K","L","M","N","O","P","Q","R","S","T","U","V","W","X","Y","Z">>
LowerChars ==
  <<"a","b","c","d","e","f","g","h","i","j","k","l","m","n","o","p","q","r","s","t","u","v","w","x","y","z">>
\* the characters of [a-z0-9] in UTF-16 code-unit order
AlnumChars ==
  <<"0","1","2","3","4","5","6","7","8","9","a","b","c","d","e","f","g","h","i","j","k","l","m","n","o","p","q","r","s","t","u","v","w","x","y","z">>

Range(s) == {s[i] : i \in 1..Len(s)}

toLowerChar(c) ==
  IF \E i \in 1..Len(UpperChars) : UpperChars[i] = c
    THEN LowerChars[CHOOSE i \in 1..Len(UpperChars) : UpperChars[i] = c]
    ELSE c

\* String.prototype.toLowerCase
toLowerCase(s) == [i \in 1..Len(s) |-> toLowerChar(s[i])]

\* String.prototype.startsWith
startsWith(s, p) == Len(p) <= Len(s) /\ SubSeq(s, 1, Len(p)) = p

\* String.prototype.endsWith
endsWith(s, p) == Len(p) <= Len(s) /\ SubSeq(s, Len(s) - Len(p) + 1, Len(s)) = p

\* String.prototype.indexOf for a one-character needle: 0-based, -1 if absent
indexOf(s, c) ==
  IF \E i \in 1..Len(s) : s[i] = c
    THEN (CHOOSE i \in 1..Len(s) : s[i] = c /\ \A j \in 1..(i-1) : s[j] # c) - 1
    ELSE -1

\* s.slice(from) with a 0-based, non-negative from
sliceFrom(s, from) == SubSeq(s, from + 1, Len(s))

\* s.slice(0, to) with a 0-based, non-negative to
sliceTo(s, to) == SubSeq(s, 1, IF to < Len(s) THEN to ELSE Len(s))

\* true iff pat occurs in s (RegExp.test of a literal pattern)
includes(s, pat) ==
  \E i \in 1..(Len(s) - Len(pat) + 1) : SubSeq(s, i, i + Len(pat) - 1) = pat

\* s.split(c)[0]: the part before the first occurrence of character c
beforeFirst(s, c) == IF indexOf(s, c) = -1 THEN s ELSE sliceTo(s, indexOf(s, c))

\* Array.prototype.join
RECURSIVE join(_, _)
join(parts, sep) ==
  IF parts = <<>> THEN <<>>
  ELSE IF Len(parts) = 1 THEN parts[1]
  ELSE parts[1] \o sep \o join(Tail(parts), sep)

\* code-unit rank of a character of [a-z0-9]
charRank(c) == CHOOSE i \in 1..Len(AlnumChars) : AlnumChars[i] = c

\* a < b in the default sort order of Array.prototype.sort (code units)
RECURSIVE strLess(_, _)
strLess(a, b) ==
  IF b = <<>> THEN FALSE
  ELSE IF a = <<>> THEN TRUE
  ELSE IF a[1] = b[1] THEN strLess(Tail(a), Tail(b))
  ELSE charRank(a[1]) < charRank(b[1])

\* Array.from(set).sort(): the elements of a set of strings in ascending order
RECURSIVE sortedStrings(_)
sortedStrings(S) ==
  IF S = {} THEN <<>>
  ELSE LET m == CHOOSE x \in S : \A y \in S \ {x} : strLess(x, y)
       IN <<m>> \o sortedStrings(S \ {m})

\* ------------------------------------------------------------------------
\* De-dupe helpers
\* ------------------------------------------------------------------------
\* the alternatives of the aggregator signature /news\.google|...|rss\./
AggregatorSignatures ==
  { <<"n","e","w","s",".","g","o","o","g","l","e">>,
    <<"g","o","o","g","l","e"," ","n","e","w","s">>,
    <<"n","e","w","s",".","y","a","h","o","o">>,
    <<"a","p","p","l","e",".","n","e","w","s">>,
    <<"f","e","e","d","b","u","r","n","e","r">>,
    <<"r","s","s",".">> }

isAggregator(it) ==
  LET src == toLowerCase(it.source \o <<" ">> \o it.url)
  IN \E sig \in AggregatorSignatures : includes(src, sig)

STOPWORDS == {
  <<"t","h","e">>, <<"a">>, <<"a","n">>, <<"a","n","d">>, <<"o","r">>, <<"b","u","t">>,
  <<"o","f">>, <<"f","o","r">>, <<"w","i","t","h">>, <<"w","i","t","h","o","u","t">>,
  <<"i","n">>, <<"o","n">>, <<"a","t">>, <<"t","o">>, <<"f","r","o","m">>, <<"b","y">>,
  <<"a","s">>, <<"i","n","t","o">>, <<"o","v","e","r">>, <<"u","n","d","e","r">>,
  <<"t","h","a","n">>, <<"a","b","o","u","t">>, <<"a","f","t","e","r">>,
  <<"b","e","f","o","r","e">>, <<"d","u","e">>, <<"w","i","l","l">>, <<"s","t","i","l","l">>,
  <<"j","u","s","t">>, <<"n","o","t">>, <<"i","s">>, <<"a","r","e">>, <<"w","a","s">>,
  <<"w","e","r","e">>, <<"b","e">>, <<"b","e","i","n","g">>, <<"b","e","e","n">>, <<"i","t">>,
  <<"i","t","s">>, <<"t","h","i","s">>, <<"t","h","a","t">>, <<"t","h","e","s","e">>,
  <<"t","h","o","s","e">>, <<"l","i","v","e">>, <<"u","p","d","a","t","e">>,
  <<"b","r","e","a","k","i","n","g">>, <<"v","i","d","e","o">>, <<"p","h","o","t","o","s">>,
  <<"r","e","p","o","r","t">>, <<"r","e","p","o","r","t","s">>, <<"s","a","y","s">>,
  <<"s","a","y">>, <<"s","a","i","d">>, <<"v","s">>, <<"v","s",".">>, <<"g","a","m","e">>,
  <<"g","a","m","e","s">>, <<"p","r","e","v","i","e","w">>, <<"r","e","c","a","p">>,
  <<"s","e","a","s","o","n">>, <<"s","t","a","r","t">>, <<"s","t","a","r","t","s">>,
  <<"s","t","a","r","t","i","n","g">>, <<"l","i","n","e","u","p">>, <<"d","e","a","d">>,
  <<"k","i","l","l","e","d">>, <<"k","i","l","l","s">>, <<"k","i","l","l">>,
  <<"d","i","e","s">>, <<"d","i","e">>, <<"i","n","j","u","r","e","d">>,
  <<"i","n","j","u","r","e","s">>, <<"i","n","j","u","r","y">>, <<"l","o","s">>,
  <<"a","n","g","e","l","e","s">>, <<"n","e","w">>, <<"y","o","r","k">>, <<"l","a">>
  }

\* "-", U+2013 and U+2014; the two non-ASCII dashes are written by name
DashChars == {"-", "EN DASH", "EM DASH"}
WhiteChars == {" "}

\* a match of /\s+[-\u2013\u2014]\s+[^|]+$/u that starts at position i (1-based)
sourceTailAt(t, i) ==
  /\ t[i] \in WhiteChars
  /\ \E j \in (i+1)..Len(t) :
       /\ \A k \in i..(j-1) : t[k] \in WhiteChars
       /\ t[j] \in DashChars
       /\ j + 2 <= Len(t)
       /\ t[j+1] \in WhiteChars
       /\ \A k \in (j+1)..Len(t) : t[k] # "|"

\* drop a trailing " - Source": the leftmost match is replaced by ""
stripSourceTail(title) ==
  IF \E i \in 1..Len(title) : sourceTailAt(title, i)
    THEN SubSeq(title, 1,
           (CHOOSE i \in 1..Len(title) :
              sourceTailAt(title, i) /\ \A h \in 1..(i-1) : ~sourceTailAt(title, h)) - 1)
    ELSE title

\* the maximal runs of [a-z0-9] of s from position i on; cur is the open run
RECURSIVE alnumRuns(_, _, _)
alnumRuns(s, i, cur) ==
  IF i > Len(s) THEN (IF cur = <<>> THEN <<>> ELSE <<cur>>)
  ELSE IF s[i] \in Range(AlnumChars) THEN alnumRuns(s, i + 1, Append(cur, s[i]))
  ELSE (IF cur = <<>> THEN <<>> ELSE <<cur>>) \o alnumRuns(s, i + 1, <<>>)

tokenize(text) == alnumRuns(toLowerCase(text), 1, <<>>)

\* toks: the tokens that are neither one character long nor stopwords
keptTokens(all) == SelectSeq(all, LAMBDA w : Len(w) > 1 /\ w \notin STOPWORDS)

\* the raw text with no placeholder
orEmpty_raw(raw) == raw

\* raw || "empty"
orEmpty(raw) == IF raw = <<>> THEN <<"e","m","p","t","y">> ELSE raw

\* uniq.slice(0, 12).join("|")
signature(uniq) == join(SubSeq(uniq, 1, IF Len(uniq) < 12 THEN Len(uniq) ELSE 12), <<"|">>)

\* the key built from tokenize(base) and toks
fuzzyKeyOf(all, toks) ==
  IF toks = <<>>
    THEN <<"f","k",":">> \o orEmpty(sliceTo(join(all, <<"|">>), 160))
    ELSE <<"f","k",":">> \o signature(sortedStrings(Range(toks)))

\* the key built from tokenize(base)
fuzzyKeyOfTokens(all) == fuzzyKeyOf(all, keptTokens(all))

fuzzyTitleKey(title) == fuzzyKeyOfTokens(tokenize(stripSourceTail(title)))

\* new URL(u) for the URLs of the model: http(s)://host[/path][?query][#hash]
\* made of letters, digits, ".", "-" and "/".  Anything without an http(s)
\* scheme, or with an empty host, makes the constructor throw (ok = FALSE).
\* The parser lower-cases the host of such a URL; an empty path reads "/".
\* length of the scheme prefix of u, 0 if it has none
schemeLength(u) ==
  IF startsWith(u, <<"h","t","t","p","s",":","/","/">>) THEN 8
  ELSE IF startsWith(u, <<"h","t","t","p",":","/","/">>) THEN 7
  ELSE 0

\* what is left of s before the first "?" or "#"
beforeQuery(s) == beforeFirst(beforeFirst(s, "?"), "#")

\* url.pathname for the text between the host and the query
pathnameOf(path) == IF path = <<>> THEN <<"/">> ELSE path

\* the URL object for scheme length, text after the scheme, and authority
urlOf(scheme, rest, authority) ==
  [ ok |-> scheme > 0 /\ authority # <<>>,
    host |-> toLowerCase(authority),
    pathname |-> pathnameOf(beforeQuery(sliceFrom(rest, Len(authority)))) ]

urlOfRest(scheme, rest) == urlOf(scheme, rest, beforeQuery(beforeFirst(rest, "/")))

parseURL(u) == urlOfRest(schemeLength(u), sliceFrom(u, schemeLength(u)))

\* u.replace(/^https?:\/\//, "")
dropScheme(u) == sliceFrom(u, schemeLength(u))

\* if (host.startsWith("m.") && host.indexOf(".") > 1) host = host.slice(2)
stripM(host) ==
  IF startsWith(host, <<"m",".">>) /\ indexOf(host, ".") > 1 THEN sliceFrom(host, 2) ELSE host

\* if (host.startsWith("mobile.") && host.indexOf(".") > 6) host = host.slice(7)
stripMobile(host) ==
  IF startsWith(host, <<"m","o","b","i","l","e",".">>) /\ indexOf(host, ".") > 6
    THEN sliceFrom(host, 7) ELSE host

\* if (path !== "/" && path.endsWith("/")) path = path.slice(0, -1)
stripSlash(path) ==
  IF path # <<"/">> /\ endsWith(path, <<"/">>) THEN sliceTo(path, Len(path) - 1) ELSE path

\* the try block for the parsed url, the catch block if new URL(u) threw
hostPathOf(url, u) ==
  IF url.ok THEN stripMobile(stripM(toLowerCase(url.host))) \o stripSlash(url.pathname)
  ELSE beforeQuery(dropScheme(u))

\* Normalize a URL into host + path only
hostPath(u) == hostPathOf(parseURL(u), u)

\* dedupeKey looking at the URLs before the ids
dedupeKey_urlFirst(it) ==
  IF it.canonical_url # <<>> THEN <<"u",":">> \o hostPath(it.canonical_url)
  ELSE IF it.url # <<>> THEN <<"u",":">> \o hostPath(it.url)
  ELSE IF it.cluster_id # <<>> THEN <<"c",":">> \o it.cluster_id
  ELSE IF it.canonical_id # <<>> THEN <<"i",":">> \o it.canonical_id
  ELSE fuzzyTitleKey(it.title)

\* Strongest identity we can build for an item (absent field = empty string)
dedupeKey(it) ==
  IF it.cluster_id # <<>> THEN <<"c",":">> \o it.cluster_id
  ELSE IF it.canonical_id # <<>> THEN <<"i",":">> \o it.canonical_id
  ELSE IF it.canonical_url # <<>> THEN <<"u",":">> \o hostPath(it.canonical_url)
  ELSE IF it.url # <<>> THEN <<"u",":">> \o hostPath(it.url)
  ELSE fuzzyTitleKey(it.title)

\* ------------------------------------------------------------------------
\* State
\* ------------------------------------------------------------------------
VARIABLES
  storage,        \* localStorage value under SEQ_STORAGE_KEY ("nr_seq_v1")
  rawData,        \* module variable rawData: the last normalized feed
  dateParseZero,  \* what this engine's Date.parse returns for the string "0"
  setItemThrows,  \* localStorage rejects writes (storage disabled, quota exhausted)
  initStorage,    \* the value under SEQ_STORAGE_KEY when the page was loaded
  data,           \* argument of the last call of normalize
  loaded,         \* what loadSeqState returned in the last call of assignStableSeq
  seqState,       \* the local `state` at the end of the last assignStableSeq
  touched,        \* the local `touched` at the end of the last assignStableSeq
  saveCalled,     \* the last assignStableSeq called saveSeqState
  writeFailed,    \* localStorage.setItem threw in the last saveSeqState
  lastSeq,        \* history: key -> the __seq assignStableSeq returned for it last
  shownAbove,     \* history: pairs <<k1, k2>> such that some output listed k1 before k2
  reshown,        \* history: some output listed two keys an earlier output listed too
  repeated,       \* history: the last call of normalize got the items of the call before
  pureIn,         \* argument list of a direct call of dedupeItems
  pureDone,       \* that call has returned
  pureKeys,       \* dedupeKey of each element of pureIn, once the call has returned
  pureOut,        \* result of the call, once it has returned
  tabs,           \* per browser tab on the same origin: where its call of normalize is
  lastSaver,      \* the tab whose saveSeqState wrote to localStorage last
  lastStamp,      \* module variable lastStamp ("" for null)
  rawStamp,       \* rawData.generated_utc ("" if rawData is null or has none)
  activeCategory, \* module variable activeCategory
  activeRegion,   \* module variable activeRegion ("" for null)
  grid,           \* what the element #grid shows
  booted,         \* the fetch of bootstrap has settled and its continuation has run
  lastEvent       \* history: the handler that ran last, what its fetch gave (the stamp: of a tick), whether it called normalize

\* the variables of the program and of its environment
progVars == <<storage, rawData, dateParseZero, setItemThrows, initStorage, data,
              loaded, seqState, touched, saveCalled, writeFailed>>
\* the observer's history
histVars == <<lastSeq, shownAbove, reshown, repeated>>
\* the direct calls of the pure functions
pureVars == <<pureIn, pureDone, pureKeys, pureOut>>

\* the browser tabs that share the localStorage
tabVars == <<tabs, lastSaver>>

\* the page around normalize: stamps, filters, the grid
pageVars == <<lastStamp, rawStamp, activeCategory, activeRegion, grid, booted, lastEvent>>

vars == <<progVars, histVars, pureVars, tabVars, pageVars>>

\* ------------------------------------------------------------------------
\* JavaScript values
\* ------------------------------------------------------------------------
\* a number, NaN, or null; v is meaningful for a number only
Num(n) == [t |-> "number", v |-> n]
NaN == [t |-> "nan", v |-> 0]
Null == [t |-> "null", v |-> 0]
\* no value yet (history variables only)
NoSeq == [t |-> "none", v |-> 0]

\* x || 0 for a number-or-NaN x, as an integer
orZero(x) == IF x.t = "number" THEN x.v ELSE 0

\* the counter left as it is
plusOne_same(x) == x

\* x + 1 for a number-or-NaN x
plusOne(x) == IF x.t = "number" THEN Num(x.v + 1) ELSE NaN

\* a timestamp field of an item: absent, an ISO-8601 text, or any other text.
\* t is the instant of an ISO text, in minutes since the epoch (Date.parse
\* counts milliseconds; the unit does not change any comparison).
NoTime == [kind |-> "absent", t |-> 0]
Iso(t) == [kind |-> "iso", t |-> t]
BadTime == [kind |-> "text", t |-> 0]

\* 2000-01-01T00:00Z in minutes: V8 reads the string "0" as the year 2000
Y2K == 262968 * 60
\* Date.parse of a string that is no ISO date is implementation-defined:
\* engines return NaN for "0" or read it as a year
DateParseZeroOutcomes == {NaN, Num(Y2K)}

\* Date.parse(x.published_utc || x.published || 0)
dateParse(it) ==
  LET f == IF it.published_utc.kind # "absent" THEN it.published_utc ELSE it.published
  IN IF f.kind = "iso" THEN Num(f.t)
     ELSE IF f.kind = "text" THEN NaN
     ELSE dateParseZero

\* Date.parse(...) || 0
ts(it) == orZero(dateParse(it))

\* ------------------------------------------------------------------------
\* Raw items of the model
\* ------------------------------------------------------------------------
Item(cluster_id, canonical_id, canonical_url, url, title, source, published_utc, paywall) ==
  [ cluster_id |-> cluster_id, canonical_id |-> canonical_id,
    canonical_url |-> canonical_url, url |-> url, title |-> title,
    source |-> source, published_utc |-> published_utc, published |-> NoTime,
    paywall |-> paywall, category |-> "", region |-> "" ]

None == <<>>
\* "X", "I"
ClusterX == <<"X">>
CanonI == <<"I">>
\* "https://a.com/b"
UrlA == <<"h","t","t","p","s",":","/","/","a",".","c","o","m","/","b">>
\* "Storm hits region"
TitleStorm == <<"S","t","o","r","m"," ","h","i","t","s"," ","r","e","g","i","o","n">>
\* "Reuters", "Google News"
Reuters == <<"R","e","u","t","e","r","s">>
GoogleNews == <<"G","o","o","g","l","e"," ","N","e","w","s">>
\* 2024-01-01T00:00:00Z and 2024-01-01T00:05:00Z, in minutes
T0 == 473352 * 60
T1 == T0 + 5

\* the items the ordering cycles draw their feeds from: three stories, one
\* of them reported twice
CyclePool ==
  { Item(ClusterX, None, UrlA, None, TitleStorm, Reuters, Iso(T0), FALSE),
    Item(ClusterX, None, None, None, TitleStorm, GoogleNews, Iso(T1), FALSE),
    Item(None, None, UrlA, None, None, Reuters, Iso(T0), TRUE),
    Item(None, None, None, None, TitleStorm, Reuters, Iso(T1), FALSE) }

\* the lists of at most n elements of S
RECURSIVE SeqsUpTo(_, _)
SeqsUpTo(S, n) ==
  IF n = 0 THEN {<<>>}
  ELSE LET shorter == SeqsUpTo(S, n - 1)
       IN shorter \cup {Append(s, x) : s \in {q \in shorter : Len(q) = n - 1}, x \in S}

\* a feed lists a record once: the lists of SeqsUpTo without a repeated element
Feeds(S, n) == {s \in SeqsUpTo(S, n) : \A i, j \in 1..Len(s) : s[i] = s[j] => i = j}

CycleInputs == Feeds(CyclePool, MaxItems)

\* the items the tabs that run side by side fetch: two stories
TabPool ==
  { Item(ClusterX, None, UrlA, None, TitleStorm, Reuters, Iso(T0), FALSE),
    Item(None, None, UrlA, None, None, Reuters, Iso(T0), TRUE) }

\* the feeds of the tabs that run side by side
TabInputs == Feeds(TabPool, MaxTabItems)

\* the items handed directly to the de-dupe functions: every identity
\* signal combination below, in three qualities
PureIdentities ==
  { <<ClusterX, None, UrlA, None, None>>,
    <<ClusterX, None, None, None, TitleStorm>>,
    <<None, None, UrlA, None, None>>,
    <<None, None, None, UrlA, TitleStorm>>,
    <<None, CanonI, None, UrlA, None>>,
    <<ClusterX, CanonI, None, None, None>>,
    <<None, None, None, None, TitleStorm>>,
    <<None, None, None, None, None>> }
PureQualities ==
  { <<Reuters, Iso(T0), FALSE>>, <<GoogleNews, Iso(T0), FALSE>>, <<Reuters, Iso(T1), TRUE>> }
PurePool ==
  { Item(id[1], id[2], id[3], id[4], id[5], q[1], q[2], q[3]) :
      id \in PureIdentities, q \in PureQualities }
PureInputs == SeqsUpTo(PurePool, MaxPureItems)

\* reports of one story (cluster X) in every quality chooseBetter looks at:
\* source, timestamp (absent, unparsable, two instants), paywall
GroupPool ==
  { Item(ClusterX, None, None, None, TitleStorm, s, t, p) :
      s \in {Reuters, GoogleNews}, t \in {NoTime, BadTime, Iso(T0), Iso(T1)}, p \in BOOLEAN }
GroupInputs == SeqsUpTo(GroupPool, MaxGroup)

\* one page under the addresses of spec 7: letter case, a leading mobile label,
\* a trailing slash; and the same path on another host
\* "https://example.com/story"
UrlStory ==
  <<"h","t","t","p","s",":","/","/","e","x","a","m","p","l","e",".","c","o","m","/","s","t","o","r","y">>
\* "https://EXAMPLE.com/story"
UrlStoryHostCase ==
  <<"h","t","t","p","s",":","/","/","E","X","A","M","P","L","E",".","c","o","m","/","s","t","o","r","y">>
\* "https://example.com/story/"
UrlStorySlash ==
  <<"h","t","t","p","s",":","/","/","e","x","a","m","p","l","e",".","c","o","m","/","s","t","o","r","y","/">>
\* "https://m.example.com/story"
UrlStoryM ==
  <<"h","t","t","p","s",":","/","/","m",".","e","x","a","m","p","l","e",".","c","o","m","/","s","t","o","r","y">>
\* "https://mobile.example.com/story"
UrlStoryMobile ==
  <<"h","t","t","p","s",":","/","/","m","o","b","i","l","e",".","e","x","a","m","p","l","e",".","c","o","m","/","s","t","o","r","y">>
\* "https://M.Example.com/Story/"
UrlStoryMixed ==
  <<"h","t","t","p","s",":","/","/","M",".","E","x","a","m","p","l","e",".","c","o","m","/","S","t","o","r","y","/">>
\* "https://example.com/Story"
UrlStoryPathCase ==
  <<"h","t","t","p","s",":","/","/","e","x","a","m","p","l","e",".","c","o","m","/","S","t","o","r","y">>
\* "https://Mail.Example.com/story"
UrlMail ==
  <<"h","t","t","p","s",":","/","/","M","a","i","l",".","E","x","a","m","p","l","e",".","c","o","m","/","s","t","o","r","y">>

\* the addresses of the one story page
StoryVariants ==
  { UrlStory, UrlStoryHostCase, UrlStorySlash, UrlStoryM, UrlStoryMobile,
    UrlStoryMixed, UrlStoryPathCase }

\* items known by their url alone
UrlPool ==
  { Item(None, None, None, u, None, Reuters, Iso(T0), FALSE) : u \in StoryVariants \cup {UrlMail} }
UrlInputs == SeqsUpTo(UrlPool, MaxUrlItems)

\* the stories the page fetches, with the category and region the feed gives
\* them ("" for none), in the order the feed lists them; a fetch finds some
PageFeed ==
  << [Item(ClusterX, None, UrlA, None, TitleStorm, Reuters, Iso(T0), FALSE)
        EXCEPT !.category = "Sports", !.region = "Canada"],
     Item(None, None, UrlA, None, None, Reuters, Iso(T0), TRUE),
     [Item(None, None, None, None, TitleStorm, Reuters, Iso(T1), FALSE)
        EXCEPT !.category = "Sports", !.region = "US"] >>
PagePool == {PageFeed[i] : i \in 1..Len(PageFeed)}
PageInputs ==
  { s \in Feeds(PagePool, MaxPageItems) :
      \A i, j \in 1..Len(s) :
        i < j => \E p, q \in 1..Len(PageFeed) : p < q /\ PageFeed[p] = s[i] /\ PageFeed[q] = s[j] }

\* every raw item of the model
Items == CyclePool \cup PurePool \cup GroupPool \cup UrlPool \cup PagePool

\* dedupeKey and isAggregator are pure: their values on the items of the
\* model, computed once
dedupeKeys == [it \in Items |-> dedupeKey(it)]
aggregators == {it \in Items : isAggregator(it)}

\* Use the de-dupe identity for seq
getItemId(it) == dedupeKeys[it]

CycleKeys == {dedupeKeys[it] : it \in CyclePool}

\* ------------------------------------------------------------------------
\* Conflict resolution and de-dupe
\* ------------------------------------------------------------------------
\* Choose the better of two items that hashed to the same key
chooseBetter(a, b) ==
  LET ta == ts(a)
      tb == ts(b)
      aggA == a \in aggregators
      aggB == b \in aggregators
  IN IF tb # ta THEN (IF tb > ta THEN b ELSE a)
     ELSE IF aggA # aggB THEN (IF aggA THEN b ELSE a)
     ELSE IF a.paywall # b.paywall THEN (IF a.paywall THEN b ELSE a)
     ELSE a

\* byKey.has(key) answering false for every key
mapIndex_never(byKey, key) == 0

\* index of key in the insertion-ordered Map byKey, 0 if it has no entry
mapIndex(byKey, key) ==
  IF \E i \in 1..Len(byKey) : byKey[i].key = key
    THEN CHOOSE i \in 1..Len(byKey) : byKey[i].key = key
    ELSE 0

\* byKey.set(key, ...) for item it, at the index of key in byKey
dedupeSet(byKey, it, key, at) ==
  IF at = 0
    THEN Append(byKey, [key |-> key, value |-> it])
    ELSE [byKey EXCEPT ![at].value = chooseBetter(byKey[at].value, it)]

\* prev = byKey.get(key), then byKey.set
dedupeGet(byKey, it, key) == dedupeSet(byKey, it, key, mapIndex(byKey, key))

\* one round of the loop of dedupeItems, for item it
dedupeStep(byKey, it) == dedupeGet(byKey, it, dedupeKeys[it])

\* the Map byKey after the loop of dedupeItems has consumed items[1..n]
RECURSIVE dedupeLoop(_, _)
dedupeLoop(items, n) ==
  IF n = 0 THEN <<>> ELSE dedupeStep(dedupeLoop(items, n - 1), items[n])

\* Array.from(byKey.values())
mapValues(byKey) == [i \in 1..Len(byKey) |-> byKey[i].value]

\* Remove duplicates by key
dedupeItems(items) == mapValues(dedupeLoop(items, Len(items)))

\* ------------------------------------------------------------------------
\* Sequence store
\* ------------------------------------------------------------------------
\* The stored text is modelled by what JSON.parse makes of it:
\*   kind "absent"  getItem returns null
\*   kind "empty"   the empty string
\*   kind "text"    text that is not JSON, e.g. "{not json"
\*   kind "scalar"  JSON that is no object with own counter/map (null, 5, "x", [])
\*   kind "object"  a JSON object; counter is its counter member and mapKind/map
\*                  its map member (an array is modelled without elements)
\* A member is missing, null, a number or a non-numeric string.
Missing == [t |-> "missing", v |-> 0]
Str == [t |-> "string", v |-> 0]
NoMap == <<>>
Stored(kind, counter, mapKind, map) ==
  [kind |-> kind, counter |-> counter, mapKind |-> mapKind, map |-> map]
Absent == Stored("absent", Missing, "missing", NoMap)
EmptyText == Stored("empty", Missing, "missing", NoMap)
NotJson == Stored("text", Missing, "missing", NoMap)
Scalar == Stored("scalar", Missing, "missing", NoMap)

\* the record { counter: 0, map: {} }
Fresh == [counter |-> Num(0), map |-> NoMap, isArray |-> FALSE, raised |-> FALSE]

\* Number(parsed?.counter || 0)
numberOrZero(c) ==
  IF c.t = "number" THEN Num(c.v)
  ELSE IF c.t = "string" THEN NaN
  ELSE Num(0)

\* loadSeqState with JSON.parse outside the try block
loadSeqState_noCatch(st) ==
  IF st.kind \in {"absent", "empty"} THEN Fresh
  ELSE IF st.kind = "text" THEN [Fresh EXCEPT !.raised = TRUE]
  ELSE IF st.kind = "scalar" THEN Fresh
  ELSE [ counter |-> numberOrZero(st.counter),
         map |-> IF st.mapKind \in {"object", "array"} THEN st.map ELSE NoMap,
         isArray |-> st.mapKind = "array",
         raised |-> FALSE ]

\* raised = an exception left the function
loadSeqState(st) ==
  IF st.kind \in {"absent", "empty"} THEN Fresh              \* if (!raw)
  ELSE IF st.kind = "text" THEN Fresh                          \* JSON.parse throws: catch
  ELSE IF st.kind = "scalar" THEN Fresh                        \* no counter, no map object
  ELSE [ counter |-> numberOrZero(st.counter),
         map |-> IF st.mapKind \in {"object", "array"} THEN st.map ELSE NoMap,
         isArray |-> st.mapKind = "array",
         raised |-> FALSE ]

\* JSON.stringify of a number: NaN is written as null
jsonNumber(x) == IF x.t = "number" THEN x ELSE Null

\* the text JSON.stringify(state) as JSON.parse will read it back; the
\* string-named properties of an array are not serialized
stringify(state) ==
  Stored("object", jsonNumber(state.counter),
         IF state.isArray THEN "array" ELSE "object",
         IF state.isArray THEN NoMap
         ELSE [k \in DOMAIN state.map |-> jsonNumber(state.map[k])])

\* saveSeqState that writes nothing
saveSeqState_nothing(st, state, fails) == st

\* the storage after saveSeqState(state); setItem throws iff fails, and the
\* exception is swallowed
saveSeqState(st, state, fails) == IF fails THEN st ELSE stringify(state)

\* every id taken for a new one
unseen_always(state, id) == TRUE

\* state.map[id] == null
unseen(state, id) == id \notin DOMAIN state.map \/ state.map[id].t = "null"

\* run carries the local variables state and touched of assignStableSeq
\* and the __seq values set so far.
\* the body of the if: id gets the incremented counter
assignNew(run, id, counter) ==
  [ state |-> [ run.state EXCEPT
                  !.counter = counter,
                  !.map = [k \in DOMAIN run.state.map \cup {id} |->
                             IF k = id THEN counter ELSE run.state.map[k]] ],
    touched |-> TRUE,
    seqs |-> Append(run.seqs, counter) ]

\* the if skipped: it.__seq = state.map[id]
assignSeen(run, id) ==
  [ state |-> run.state,
    touched |-> run.touched,
    seqs |-> Append(run.seqs, run.state.map[id]) ]

\* one round of the loop of assignStableSeq, for the item of identity id
assignId(run, id) ==
  IF unseen(run.state, id)
    THEN assignNew(run, id, plusOne(run.state.counter))
    ELSE assignSeen(run, id)

\* one round of the loop of assignStableSeq, for item it
assignStep(run, it) == assignId(run, getItemId(it))

\* the locals after the loop of assignStableSeq has consumed items[1..n]
RECURSIVE assignLoop(_, _, _)
assignLoop(state0, items, n) ==
  IF n = 0 THEN [state |-> state0, touched |-> FALSE, seqs |-> <<>>]
  ELSE assignStep(assignLoop(state0, items, n - 1), items[n])

\* the end of assignStableSeq, saving whether or not a key was added
assignEnd_alwaysSaves(st, items, fails, state, run) ==
  [ items |-> [i \in 1..Len(items) |-> [it |-> items[i], seq |-> run.seqs[i]]],
    loaded |-> state,
    state |-> run.state,
    touched |-> run.touched,
    saveCalled |-> TRUE,
    storage |-> saveSeqState(st, run.state, fails) ]

\* the end of assignStableSeq, saving the entries of this call's items only
assignEnd_prunes(st, items, fails, state, run) ==
  [ items |-> [i \in 1..Len(items) |-> [it |-> items[i], seq |-> run.seqs[i]]],
    loaded |-> state,
    state |-> run.state,
    touched |-> run.touched,
    saveCalled |-> run.touched,
    storage |-> IF run.touched
                  THEN saveSeqState(st,
                         [run.state EXCEPT !.map =
                            [k \in {getItemId(items[i]) : i \in 1..Len(items)} |->
                               run.state.map[k]]],
                         fails)
                  ELSE st ]

\* the end of assignStableSeq, the items losing their numbers when the write fails
assignEnd_failDropsSeqs(st, items, fails, state, run) ==
  [ items |-> [i \in 1..Len(items) |->
                 [it |-> items[i],
                  seq |-> IF fails /\ run.touched THEN Null ELSE run.seqs[i]]],
    loaded |-> state,
    state |-> run.state,
    touched |-> run.touched,
    saveCalled |-> run.touched,
    storage |-> IF run.touched THEN saveSeqState(st, run.state, fails) ELSE st ]

\* the end of assignStableSeq: if (touched) saveSeqState(state); return items.
\* state: what loadSeqState returned; run: the locals after the loop.
\* items: each item with its __seq; storage: the stored value afterwards.
assignEnd(st, items, fails, state, run) ==
  [ items |-> [i \in 1..Len(items) |-> [it |-> items[i], seq |-> run.seqs[i]]],
    loaded |-> state,
    state |-> run.state,
    touched |-> run.touched,
    saveCalled |-> run.touched,
    storage |-> IF run.touched THEN saveSeqState(st, run.state, fails) ELSE st ]

\* assignStableSeq from the loaded state on
assignFrom(st, items, fails, state) ==
  assignEnd(st, items, fails, state, assignLoop(state, items, Len(items)))

\* Assign a monotonic first-seen sequence to each item.
assignStableSeq(st, items, fails) == assignFrom(st, items, fails, loadSeqState(st))

\* ------------------------------------------------------------------------
\* Ordering
\* ------------------------------------------------------------------------
\* a comparator by timestamp alone
compareItems_byTime(a, b) == ts(b.it) - ts(a.it)

\* a comparator with the __seq difference the other way round
compareItems_oldestFirst(a, b) ==
  LET d == orZero(a.seq) - orZero(b.seq)
  IN IF d # 0 THEN d ELSE ts(b.it) - ts(a.it)

\* a comparator without the tiebreaker
compareItems_seqOnly(a, b) == orZero(b.seq) - orZero(a.seq)

\* the comparator of normalize's sort: negative iff a goes before b
compareItems(a, b) ==
  LET d == orZero(b.seq) - orZero(a.seq)
  IN IF d # 0 THEN d ELSE ts(b.it) - ts(a.it)

\* Array.prototype.sort is stable: x goes behind every element not after it
RECURSIVE insertSorted(_, _)
insertSorted(sorted, x) ==
  IF sorted = <<>> THEN <<x>>
  ELSE IF compareItems(sorted[1], x) <= 0 THEN <<sorted[1]>> \o insertSorted(Tail(sorted), x)
  ELSE <<x>> \o sorted

RECURSIVE sortItems(_, _)
sortItems(items, n) ==
  IF n = 0 THEN <<>> ELSE insertSorted(sortItems(items, n - 1), items[n])

\* Step C of normalize: deduped.sort(...)
sortStep(assigned) == [assigned EXCEPT !.items = sortItems(assigned.items, Len(assigned.items))]

\* normalize(data) for data.items an array: the sorted items, and what
\* assignStableSeq did to the sequence store
normalize(st, items, fails) == sortStep(assignStableSeq(st, dedupeItems(items), fails))

\* ------------------------------------------------------------------------
\* The page: filters and render
\* ------------------------------------------------------------------------
\* generated_utc absent, null or empty; lastStamp null
NoStamp == ""
\* activeRegion null
NoRegion == ""

\* it.category || "General"
categoryOf(it) == IF it.category = "" THEN "General" ELSE it.category
\* it.region || "World"
regionOf(it) == IF it.region = "" THEN "World" ELSE it.region

\* the test of the filter callback for one item
passes(it, category, region) ==
  /\ (category = "all" \/ categoryOf(it) = category)
  /\ (region = NoRegion \/ regionOf(it) = region)

\* a list last to first
reversed(s) == [i \in 1..Len(s) |-> s[Len(s) + 1 - i]]

\* applyFilters listing the matching items last to first
applyFilters_reversed(items, category, region) ==
  reversed(SelectSeq(items, LAMBDA e : passes(e.it, category, region)))

\* items.filter(...) under the filters category and region
applyFilters(items, category, region) ==
  SelectSeq(items, LAMBDA e : passes(e.it, category, region))

\* the content of #grid: kind "initial" (the markup of the page), "failed"
\* (bootstrap could not load), "none" (No headlines yet), "nomatch" (No
\* headlines match the current filters), "cards" (one card per item, in order)
Shown(kind, cards) == [kind |-> kind, cards |-> cards]

\* the grid for the filtered items
gridOf(items) == IF items = <<>> THEN Shown("nomatch", <<>>) ELSE Shown("cards", items)

\* render() for the given rawData and filters
render(raw, category, region) ==
  IF ~raw.set THEN Shown("none", <<>>)
  ELSE gridOf(applyFilters(raw.items, category, region))

\* what loadJson() gave a handler: kind "fails" (the fetch or the parsing of
\* the body threw, or the status was not ok), "null" (the body was the JSON
\* null), "data" (an object: its generated_utc, whether items is an array,
\* the items)
Fetched(kind, stamp, hasItems, items) ==
  [kind |-> kind, stamp |-> stamp, hasItems |-> hasItems, items |-> items]

\* no handler has run yet (history only)
NoEvent == [kind |-> "none", fetched |-> "none", stamp |-> NoStamp, ran |-> FALSE]

\* ------------------------------------------------------------------------
\* Initial states
\* ------------------------------------------------------------------------
\* two tabs of one browser show the page
Tabs == {"tab1", "tab2"}

\* a tab that has not called normalize yet.  pc: "idle", "assigning" (the
\* loop of assignStableSeq is done, saveSeqState not yet called), "returned";
\* items: the de-duped items; loaded: what loadSeqState returned; run: the
\* locals after the loop; out: what normalize returned
IdleTab ==
  [ pc |-> "idle", items |-> <<>>, loaded |-> Fresh,
    run |-> [state |-> Fresh, touched |-> FALSE, seqs |-> <<>>], out |-> <<>> ]

InitRest ==
  /\ rawData = [set |-> FALSE, items |-> <<>>]
  /\ data = [hasItems |-> FALSE, items |-> <<>>]
  /\ loaded = Fresh
  /\ seqState = Fresh
  /\ touched = FALSE
  /\ saveCalled = FALSE
  /\ writeFailed = FALSE
  /\ setItemThrows \in BOOLEAN
  /\ initStorage = storage
  /\ lastSeq = [k \in CycleKeys |-> NoSeq]
  /\ shownAbove = {}
  /\ reshown = FALSE
  /\ repeated = FALSE
  /\ pureDone = FALSE
  /\ pureKeys = <<>>
  /\ pureOut = <<>>
  /\ tabs = [c \in Tabs |-> IdleTab]
  /\ lastSaver = "none"
  /\ lastStamp = NoStamp
  /\ rawStamp = NoStamp
  /\ activeCategory = "all"
  /\ activeRegion = NoRegion
  /\ grid = Shown("initial", <<>>)
  /\ booted = FALSE
  /\ lastEvent = NoEvent

\* "c:X" and "u:a.com/b", two of the keys of CyclePool
KeyX == <<"c",":","X">>
KeyU == <<"u",":","a",".","c","o","m","/","b">>

\* what a browser may hold under SEQ_STORAGE_KEY when the page loads
InitStorages ==
  { Absent, EmptyText, NotJson, Scalar,
    Stored("object", Missing, "missing", NoMap),
    Stored("object", Str, "missing", NoMap),
    Stored("object", Str, "object", KeyX :> Num(1)),
    Stored("object", Null, "object", KeyX :> Num(1)),
    Stored("object", Num(2), "object", KeyX :> Num(1) @@ KeyU :> Num(2)),
    Stored("object", Num(0), "object", KeyX :> Num(2)),
    Stored("object", Num(1), "object", KeyX :> Num(1) @@ KeyU :> Num(1)),
    Stored("object", Num(1), "object", KeyX :> Null),
    Stored("object", Num(1), "array", NoMap),
    Stored("object", Num(2), "string", NoMap) }

\* a first visit: nothing stored under SEQ_STORAGE_KEY.  No item of
\* CyclePool lacks a timestamp, so Date.parse never sees "0" here.
Init ==
  /\ storage = Absent
  /\ dateParseZero = NaN
  /\ pureIn = <<>>
  /\ InitRest

\* a visit that finds any value under SEQ_STORAGE_KEY
InitStored ==
  /\ storage \in InitStorages
  /\ dateParseZero = NaN
  /\ pureIn = <<>>
  /\ InitRest

\* before a direct call of dedupeItems, on any engine
InitPure ==
  /\ storage = Absent
  /\ dateParseZero \in DateParseZeroOutcomes
  /\ pureIn \in PureInputs
  /\ InitRest

\* before a direct call of dedupeItems on reports of one story, on any engine
InitGroup ==
  /\ storage = Absent
  /\ dateParseZero \in DateParseZeroOutcomes
  /\ pureIn \in GroupInputs
  /\ InitRest

\* before a direct call of dedupeItems on items known by their url alone
InitUrl ==
  /\ storage = Absent
  /\ dateParseZero = NaN
  /\ pureIn \in UrlInputs
  /\ InitRest

\* ------------------------------------------------------------------------
\* Operations
\* ------------------------------------------------------------------------
keysOf(items) == [i \in 1..Len(items) |-> dedupeKeys[items[i].it]]

\* what one call normalize(data), data.items an array, does to the state;
\* fails: localStorage.setItem throws in this call
Cycle(items, fails) ==
  \E r \in {normalize(storage, items, fails)} :
     /\ orZero(r.state.counter) <= MaxCounter
     /\ storage' = r.storage
     /\ rawData' = [set |-> TRUE, items |-> r.items]
     /\ data' = [hasItems |-> TRUE, items |-> items]
     /\ loaded' = r.loaded
     /\ seqState' = r.state
     /\ touched' = r.touched
     /\ saveCalled' = r.saveCalled
     /\ writeFailed' = (fails /\ r.saveCalled)
     /\ UNCHANGED <<dateParseZero, setItemThrows, initStorage, pureVars, tabVars>>

\* rawData = normalize(data) in a browser whose localStorage takes writes
Normalize(items) ==
  /\ ~setItemThrows
  /\ Cycle(items, FALSE)
  /\ UNCHANGED pageVars

\* rawData = normalize(data) in a browser whose localStorage.setItem throws
\* (storage disabled or full): saveSeqState swallows the exception
NormalizeWriteFails(items) ==
  /\ setItemThrows
  /\ Cycle(items, TRUE)
  /\ UNCHANGED pageVars

\* what one call normalize(data), data null or without an items array, does
\* to the state: { items: [] }
CycleNoItems ==
  /\ rawData' = [set |-> TRUE, items |-> <<>>]
  /\ data' = [hasItems |-> FALSE, items |-> <<>>]
  /\ UNCHANGED <<storage, dateParseZero, setItemThrows, initStorage, loaded,
                 seqState, touched, saveCalled, writeFailed, pureVars, tabVars>>

\* rawData = normalize(data) for data without an items array
NormalizeNoItems ==
  /\ CycleNoItems
  /\ UNCHANGED pageVars

\* the pairs <<k1, k2>> with k1 listed before k2 in the key list ks
pairsOf(ks) ==
  {<<ks[p[1]], ks[p[2]]>> : p \in {q \in (1..Len(ks)) \X (1..Len(ks)) : q[1] < q[2]}}

\* the observer of the outputs: what the new rawData adds to the history
Observe ==
  \E ks \in {keysOf(rawData'.items)} :
     /\ lastSeq' = [k \in CycleKeys |->
                      IF \E i \in 1..Len(ks) : ks[i] = k
                        THEN rawData'.items[CHOOSE i \in 1..Len(ks) : ks[i] = k].seq
                        ELSE lastSeq[k]]
     /\ shownAbove' = shownAbove \cup pairsOf(ks)
     /\ reshown' = (reshown \/ \E p \in pairsOf(ks) :
                                  p \in shownAbove \/ <<p[2], p[1]>> \in shownAbove)
     /\ repeated' = (data.hasItems /\ data'.hasItems /\ data'.items = data.items)

\* a direct call dedupeItems(pureIn)
CallDedupe ==
  /\ ~pureDone
  /\ pureDone' = TRUE
  /\ pureKeys' = [i \in 1..Len(pureIn) |-> dedupeKey(pureIn[i])]
  /\ pureOut' = dedupeItems(pureIn)
  /\ UNCHANGED <<progVars, histVars, pureIn, tabVars, pageVars>>

\* tab c calls normalize(data): de-dupe, loadSeqState and the loop of
\* assignStableSeq run without touching the shared storage again
TabAssign(c, items) ==
  /\ tabs[c].pc \in {"idle", "returned"}
  /\ \E deduped \in {dedupeItems(items)}, state \in {loadSeqState(storage)} :
       \E run \in {assignLoop(state, deduped, Len(deduped))} :
          /\ orZero(run.state.counter) <= MaxCounter
          /\ tabs' = [tabs EXCEPT ![c] =
                        [ pc |-> "assigning", items |-> deduped, loaded |-> state,
                          run |-> run, out |-> <<>> ]]
  /\ UNCHANGED <<progVars, histVars, pureVars, lastSaver, pageVars>>

\* tab c goes on: if (touched) saveSeqState(state), the sort, the return
TabReturn(c) ==
  /\ tabs[c].pc = "assigning"
  /\ \E r \in {sortStep(assignEnd(storage, tabs[c].items, setItemThrows,
                                   tabs[c].loaded, tabs[c].run))} :
       /\ storage' = r.storage
       /\ tabs' = [tabs EXCEPT ![c].pc = "returned", ![c].out = r.items]
       /\ lastSaver' = IF r.saveCalled /\ ~setItemThrows THEN c ELSE lastSaver
  /\ UNCHANGED <<rawData, dateParseZero, setItemThrows, initStorage, data, loaded,
                 seqState, touched, saveCalled, writeFailed, histVars, pureVars,
                 pageVars>>

\* the values of generated_utc the feed carries
Stamps == {"s1", "s2"}

\* what loadJson() can give a handler
PageFetches ==
  {Fetched("fails", NoStamp, FALSE, <<>>), Fetched("null", NoStamp, FALSE, <<>>)}
    \cup {Fetched("data", s, FALSE, <<>>) : s \in Stamps \cup {NoStamp}}
    \cup {Fetched("data", s, TRUE, items) : s \in Stamps \cup {NoStamp}, items \in PageInputs}

\* the test of autoRefresh answering true for every feed
stampChanged_always(stamp, last) == TRUE

\* data.generated_utc && data.generated_utc !== lastStamp
stampChanged(stamp, last) == stamp # NoStamp /\ stamp # last

\* rawData = normalize(data) for the fetched data f (not a failed fetch):
\* { ...data, items: deduped }, or { items: [] } for null or no items array
RunNormalize(f) ==
  IF f.kind = "data" /\ f.hasItems
    THEN Cycle(f.items, setItemThrows) /\ rawStamp' = f.stamp
    ELSE CycleNoItems /\ rawStamp' = NoStamp

\* the continuation of bootstrap once loadJson() has settled with f
Bootstrap(f) ==
  /\ ~booted
  /\ booted' = TRUE
  /\ IF f.kind = "fails"
       THEN /\ grid' = Shown("failed", <<>>)
            /\ lastEvent' = [kind |-> "bootstrap", fetched |-> f.kind, stamp |-> NoStamp, ran |-> FALSE]
            /\ UNCHANGED <<progVars, pureVars, tabVars, lastStamp, rawStamp,
                           activeCategory, activeRegion>>
       ELSE /\ RunNormalize(f)
            /\ grid' = render(rawData', activeCategory, activeRegion)
            /\ lastStamp' = IF rawStamp' # NoStamp THEN rawStamp' ELSE lastStamp
            /\ lastEvent' = [kind |-> "bootstrap", fetched |-> f.kind, stamp |-> NoStamp, ran |-> TRUE]
            /\ UNCHANGED <<activeCategory, activeRegion>>
  /\ UNCHANGED histVars

\* one tick of the interval of autoRefresh, loadJson() having settled with f
Tick(f) ==
  /\ IF f.kind = "data" /\ stampChanged(f.stamp, lastStamp)
       THEN /\ RunNormalize(f)
            /\ grid' = render(rawData', activeCategory, activeRegion)
            /\ lastStamp' = f.stamp
            /\ lastEvent' = [kind |-> "tick", fetched |-> f.kind, stamp |-> f.stamp, ran |-> TRUE]
       ELSE /\ lastEvent' = [kind |-> "tick", fetched |-> f.kind, stamp |-> f.stamp, ran |-> FALSE]
            /\ UNCHANGED <<progVars, pureVars, tabVars, lastStamp, rawStamp, grid>>
  /\ UNCHANGED <<activeCategory, activeRegion, booted, histVars>>

\* a click on the chip data-filter = category
ClickCategory(category) ==
  /\ activeCategory' = category
  /\ grid' = render(rawData, category, activeRegion)
  /\ lastEvent' = [kind |-> "click", fetched |-> "none", stamp |-> NoStamp, ran |-> FALSE]
  /\ UNCHANGED <<progVars, histVars, pureVars, tabVars, lastStamp, rawStamp,
                 activeRegion, booted>>

\* a click on the chip data-region = region; the chips carry chip-active as
\* the handler left them: a click on the active region clears it
ClickRegion(region) ==
  /\ activeRegion' = IF activeRegion = region THEN NoRegion ELSE region
  /\ grid' = render(rawData, activeCategory, activeRegion')
  /\ lastEvent' = [kind |-> "click", fetched |-> "none", stamp |-> NoStamp, ran |-> FALSE]
  /\ UNCHANGED <<progVars, histVars, pureVars, tabVars, lastStamp, rawStamp,
                 activeCategory, booted>>

Next ==
  \/ \E items \in CycleInputs : Normalize(items) /\ Observe
  \/ \E items \in CycleInputs : NormalizeWriteFails(items) /\ Observe
  \/ NormalizeNoItems /\ Observe

Spec == Init /\ [][Next]_vars

\* the same operations, the outputs unobserved
NextStored ==
  \/ \E items \in CycleInputs : Normalize(items) /\ UNCHANGED histVars
  \/ \E items \in CycleInputs : NormalizeWriteFails(items) /\ UNCHANGED histVars
  \/ NormalizeNoItems /\ UNCHANGED histVars

SpecStored == InitStored /\ [][NextStored]_vars

NextPure == CallDedupe

SpecPure == InitPure /\ [][NextPure]_vars

NextGroup == CallDedupe

SpecGroup == InitGroup /\ [][NextGroup]_vars

\* two tabs refresh side by side
NextTabs ==
  \/ \E c \in Tabs, items \in TabInputs : TabAssign(c, items)
  \/ \E c \in Tabs : TabReturn(c)

SpecTabs == Init /\ [][NextTabs]_vars

\* one direct call of dedupeItems on items known by their url alone
NextUrl == CallDedupe

SpecUrl == InitUrl /\ [][NextUrl]_vars

\* the chips of the page
Categories == {"all", "Sports"}
Regions == {"Canada", "US"}

\* the page: bootstrap once, the ticks of autoRefresh, the clicks on the filters
NextPage ==
  \/ \E f \in PageFetches : Bootstrap(f)
  \/ \E f \in PageFetches : Tick(f)
  \/ \E category \in Categories : ClickCategory(category)
  \/ \E region \in Regions : ClickRegion(region)

SpecPage == Init /\ [][NextPage]_vars

\* ------------------------------------------------------------------------
\* Vocabulary of the properties
\* ------------------------------------------------------------------------
\* position of key k in the output list, 0 if it is not listed
posIn(items, k) ==
  LET ks == keysOf(items)
  IN IF \E i \in 1..Len(ks) : ks[i] = k THEN CHOOSE i \in 1..Len(ks) : ks[i] = k ELSE 0

\* the __seq the output list carries for key k (k listed)
seqIn(items, k) == items[posIn(items, k)].seq

\* the keys the output list shows
shown(items) == Range(keysOf(items))

\* x and y are numbers and x > y
numGreater(x, y) == x.t = "number" /\ y.t = "number" /\ x.v > y.v

\* the keys of the raw items handed to the last call of normalize
dataKeys(d) == {dedupeKeys[d.items[i]] : i \in 1..Len(d.items)}

C2_IdenticalRerunStable ==
  [][ ( /\ data.hasItems /\ data'.hasItems
        /\ data'.items = data.items
        /\ ~writeFailed )
      => ( /\ keysOf(rawData'.items) = keysOf(rawData.items)
           /\ \A k \in shown(rawData.items) :
                seqIn(rawData'.items, k) = seqIn(rawData.items, k)
           /\ ~touched'
           /\ seqState'.counter = seqState.counter
           /\ storage' = storage ) ]_vars

\* a second run on the same two stories after a persisted first run
C2_Witness ==
  /\ repeated
  /\ ~setItemThrows
  /\ Cardinality(shown(rawData.items)) >= 2

\* ------------------------------------------------------------------------
\* C3: a key absent from the store when a cycle starts gets a sequence
\* number above that of every key assigned in an earlier cycle, and its
\* item is listed above every item whose key was assigned earlier.
\* ------------------------------------------------------------------------
\* what C3 says of one step
C3_Step ==
  data'.hasItems =>
    \A k \in shown(rawData'.items) :
      k \notin DOMAIN loaded'.map =>
        /\ \A old \in CycleKeys :
             lastSeq[old] # NoSeq => numGreater(seqIn(rawData'.items, k), lastSeq[old])
        /\ \A old \in shown(rawData'.items) :
             (lastSeq[old] # NoSeq /\ old # k) =>
               posIn(rawData'.items, k) < posIn(rawData'.items, old)

recordOK(counter, map) ==
  /\ counter.t = "number"
  /\ \A k \in DOMAIN map : map[k].t = "number" => map[k].v <= counter.v
  /\ \A k1, k2 \in DOMAIN map :
       (map[k1].t = "number" /\ map[k2].t = "number" /\ k1 # k2) => map[k1].v # map[k2].v

\* a stored value read as a record: only a JSON object carries one
storedOK(st) == st.kind = "object" => recordOK(st.counter, st.map)

\* the counter of the stored record, 0 if there is none
storedCounter(st) == IF st.kind = "object" THEN orZero(st.counter) ELSE 0

\* the record in memory after a cycle and the record in storage are sound
C4_RecordsSound ==
  /\ data.hasItems => recordOK(seqState.counter, seqState.map)
  /\ storage # initStorage => storedOK(storage)

\* the counter in memory does not go down from one cycle to the next
C4_CounterStep ==
  (data.hasItems /\ data'.hasItems) => orZero(seqState'.counter) >= orZero(seqState.counter)

\* neither does the stored counter; the counter in memory may, after a
\* write that failed
C4_StoredCounterStep ==
  /\ storedCounter(storage') >= storedCounter(storage)
  /\ ~writeFailed => C4_CounterStep

\* the page found nothing usable in storage, or a record with a numeric
\* counter that is sound already
soundStart ==
  initStorage.kind = "object" =>
    (initStorage.counter.t = "number" /\ recordOK(initStorage.counter, initStorage.map))

C5_KeepsInteger ==
  \A k \in shown(rawData'.items) :
    lastSeq[k] # NoSeq => seqIn(rawData'.items, k) = lastSeq[k]

\* assignStableSeq leaves the entries it loaded as they are
C5_NoRewrite ==
  \A k \in DOMAIN loaded'.map :
    k \in DOMAIN seqState'.map /\ seqState'.map[k] = loaded'.map[k]

wrongShape(st) ==
  \/ st.kind # "object"
  \/ st.counter.t # "number"
  \/ st.mapKind \notin {"object", "array"}

C6_FreshOnWrongShape ==
  [][ data'.hasItems =>
        /\ wrongShape(storage) => loaded' = Fresh
        /\ loaded'.counter.t = "number" ]_vars

\* ------------------------------------------------------------------------
\* C7: with a stored value that is not JSON, loadSeqState does not raise and
\* the cycle assigns sequence numbers as it does with empty storage: the
\* first new key gets 1.
\* ------------------------------------------------------------------------
C7_NotJsonAsEmpty ==
  [][ (data'.hasItems /\ storage.kind = "text") =>
        /\ ~loaded'.raised
        /\ loaded'.counter = Num(0) /\ loaded'.map = NoMap
        /\ rawData'.items = normalize(Absent, data'.items, setItemThrows).items
        /\ seqState' = normalize(Absent, data'.items, setItemThrows).state
        /\ data'.items # <<>> =>
             seqIn(rawData'.items, dedupeKeys[data'.items[1]]) = Num(1) ]_vars

\* the page found "{not json" and a cycle numbered two stories 1 and 2
C7_Witness ==
  /\ initStorage = NotJson
  /\ loaded = Fresh
  /\ touched
  /\ Len(rawData.items) >= 2
  /\ seqState.counter = Num(2)
  /\ rawData.items[1].seq = Num(2)
  /\ rawData.items[2].seq = Num(1)

\* ------------------------------------------------------------------------
\* C8: one call of assignStableSeq writes to storage if and only if a key of
\* its input has no integer in the loaded map; otherwise the stored value
\* stays as it is and no write is issued.
\* ------------------------------------------------------------------------
\* key k has no integer in map
absentFrom(map, k) == k \notin DOMAIN map \/ map[k].t # "number"

C8_WriteIffNewKey ==
  [][ data'.hasItems =>
        /\ saveCalled' <=> (\E k \in dataKeys(data') : absentFrom(loaded'.map, k))
        /\ ~saveCalled' => storage' = storage
        /\ (saveCalled' /\ ~setItemThrows) => storage' = stringify(seqState') ]_vars

\* a call with two stories, both in the loaded map: nothing written
C8_Witness ==
  /\ data.hasItems
  /\ Cardinality(dataKeys(data)) >= 2
  /\ \A k \in dataKeys(data) : ~absentFrom(loaded.map, k)
  /\ ~saveCalled
  /\ storage.kind = "object"

\* ------------------------------------------------------------------------
\* C9: for every item list, in every order, dedupeItems returns exactly one
\* item per identity key of the input: no key is lost, no two results have
\* the same key, items sharing a cluster_id collapse to one.
\* ------------------------------------------------------------------------
\* the keys of the result of dedupeItems
pureOutKeys == [i \in 1..Len(pureOut) |-> dedupeKeys[pureOut[i]]]

C9_OnePerKey ==
  pureDone =>
    /\ \A i, j \in 1..Len(pureOut) : pureOutKeys[i] = pureOutKeys[j] => i = j
    /\ Range(pureOutKeys) = Range(pureKeys)
    /\ Range(pureOut) \subseteq Range(pureIn)
    /\ Len(pureOut) = Cardinality(Range(pureKeys))
    /\ \A i \in 1..Len(pureIn) :
         pureIn[i].cluster_id # None =>
           Cardinality({o \in 1..Len(pureOut) :
                          pureOut[o].cluster_id = pureIn[i].cluster_id}) = 1

\* two different records of cluster X went in, one came out
C9_Witness ==
  /\ pureDone
  /\ Len(pureIn) = 2
  /\ pureIn[1] # pureIn[2]
  /\ pureIn[1].cluster_id = ClusterX
  /\ pureIn[2].cluster_id = ClusterX
  /\ Len(pureOut) = 1

\* ------------------------------------------------------------------------
\* C10: dedupeKey uses the first present signal in the order cluster_id,
\* canonical_id, canonical_url, url, fuzzy title and ignores the fields
\* below it: cluster_id X with a canonical_url has the key of cluster_id X
\* alone and not the key of that canonical_url alone.
\* ------------------------------------------------------------------------
\* rank of the first field present in the item
signalRank(it) ==
  IF it.cluster_id # None THEN 1
  ELSE IF it.canonical_id # None THEN 2
  ELSE IF it.canonical_url # None THEN 3
  ELSE IF it.url # None THEN 4
  ELSE 5

\* that field (the two URL fields feed the same normalization)
signalValue(it) ==
  IF it.cluster_id # None THEN <<"cluster", it.cluster_id>>
  ELSE IF it.canonical_id # None THEN <<"id", it.canonical_id>>
  ELSE IF it.canonical_url # None THEN <<"url", it.canonical_url>>
  ELSE IF it.url # None THEN <<"url", it.url>>
  ELSE <<"title", it.title>>

C10_FirstSignalDecides ==
  pureDone =>
    \A i, j \in 1..Len(pureIn) :
      /\ signalValue(pureIn[i]) = signalValue(pureIn[j]) => pureKeys[i] = pureKeys[j]
      /\ signalValue(pureIn[i])[1] # signalValue(pureIn[j])[1] => pureKeys[i] # pureKeys[j]
      /\ (signalRank(pureIn[i]) = 1 /\ signalRank(pureIn[j]) = 1) =>
           (pureKeys[i] = pureKeys[j] <=> pureIn[i].cluster_id = pureIn[j].cluster_id)

\* cluster X with canonical_url https://a.com/b beside that canonical_url alone
C10_Witness ==
  /\ pureDone
  /\ Len(pureIn) = 2
  /\ pureIn[1].cluster_id = ClusterX /\ pureIn[1].canonical_url = UrlA
  /\ pureIn[2].cluster_id = None /\ pureIn[2].canonical_id = None
  /\ pureIn[2].canonical_url = UrlA
  /\ pureKeys[1] # pureKeys[2]
  /\ pureKeys[1] = <<"c", ":", "X">>

\* ------------------------------------------------------------------------
\* C11: of two items with the same key chooseBetter returns the strictly
\* newer one (a missing or unparsable time counting as 0); on equal times
\* the one that is not an aggregator; then the one that is not paywalled;
\* otherwise the first.
\* ------------------------------------------------------------------------
\* the published time with a missing or unparsable one counting as 0
timeOrZero(it) == IF it.published_utc.kind = "iso" THEN it.published_utc.t ELSE 0

\* the item the four rules name
ruleChoice(a, b) ==
  IF timeOrZero(b) # timeOrZero(a) THEN (IF timeOrZero(b) > timeOrZero(a) THEN b ELSE a)
  ELSE IF (a \in aggregators) # (b \in aggregators) THEN (IF a \in aggregators THEN b ELSE a)
  ELSE IF a.paywall # b.paywall THEN (IF a.paywall THEN b ELSE a)
  ELSE a

C11_ChooseBetterRules ==
  (pureDone /\ Len(pureIn) = 2) => pureOut = <<ruleChoice(pureIn[1], pureIn[2])>>

\* ------------------------------------------------------------------------
\* C13: the list normalize returns is in descending order of sequence
\* number, and in descending order of published time between items of
\* equal sequence number.
\* ------------------------------------------------------------------------
\* the item at position i of the output goes before the one at position j
\* (a __seq that is no number sorts as 0, as in the comparator)
inOrder(items, i, j) ==
  \/ orZero(items[i].seq) > orZero(items[j].seq)
  \/ /\ orZero(items[i].seq) = orZero(items[j].seq)
     /\ ts(items[i].it) >= ts(items[j].it)

C13_SortedBySeqThenTime ==
  \A i, j \in 1..Len(rawData.items) : i < j => inOrder(rawData.items, i, j)

\* two stories of equal sequence number listed newest first, against the
\* order of the feed
C13_Witness ==
  /\ Len(rawData.items) = 2
  /\ rawData.items[1].seq = rawData.items[2].seq
  /\ ts(rawData.items[1].it) > ts(rawData.items[2].it)
  /\ data.items = <<rawData.items[2].it, rawData.items[1].it>>

\* ------------------------------------------------------------------------
\* C14  Two tabs that run assignStableSeq side by side
\* ------------------------------------------------------------------------
\* the keys tab c assigned a number to for the first time in its current call
newKeysOf(c) ==
  { k \in { dedupeKeys[tabs[c].items[i]] : i \in 1..Len(tabs[c].items) } :
      absentFrom(tabs[c].loaded.map, k) }

\* tab c returned a number for key k, which it had newly assigned
returnedNew(c, k) ==
  /\ tabs[c].pc = "returned"
  /\ k \in newKeysOf(c)
  /\ \E i \in 1..Len(tabs[c].out) :
       /\ dedupeKeys[tabs[c].out[i].it] = k
       /\ tabs[c].out[i].seq.t = "number"

\* key k is not in the persisted record
notPersisted(k) ==
  \/ storage.kind # "object"
  \/ storage.mapKind # "object"
  \/ k \notin DOMAIN storage.map

\* C14: saveSeqState overwrites the whole record with the local state of the
\* tab that saves, without merging: after the successful write of tab d the
\* persisted record is exactly d's local state, so a key another tab c newly
\* assigned and returned a number for is absent from the record whenever d's
\* local state, loaded before c saved, does not hold it.
C14_LastSaveOverwrites ==
  \A d \in Tabs :
    (lastSaver = d /\ tabs[d].pc = "returned") =>
       /\ storage = stringify(tabs[d].run.state)
       /\ \A c \in Tabs \ {d} : \A k \in newKeysOf(c) :
            (returnedNew(c, k) /\ k \notin DOMAIN tabs[d].run.state.map)
               => notPersisted(k)

\* C14 witness: both tabs loaded the empty record before either saved, both
\* saved, and the key the first saver newly assigned and returned a number
\* for is missing from the persisted record
C14_Witness ==
  \E c, d \in Tabs :
    /\ c # d
    /\ ~setItemThrows
    /\ tabs[c].loaded = Fresh /\ tabs[d].loaded = Fresh
    /\ tabs[c].run.touched /\ tabs[d].run.touched
    /\ tabs[d].pc = "returned"
    /\ lastSaver = d
    /\ \E k \in newKeysOf(c) : returnedNew(c, k) /\ notPersisted(k)

\* ------------------------------------------------------------------------
\* C15: when the write of the sequence state fails, normalize still
\* completes and returns the full ordered list carrying the numbers assigned
\* in this cycle; the failure does not reach the caller, and the stored
\* value is left as it was.
\* ------------------------------------------------------------------------
C15_WriteFailureNotSurfaced ==
  [][ (data'.hasItems /\ writeFailed') =>
        /\ rawData'.set
        /\ rawData'.items = normalize(storage, data'.items, FALSE).items
        /\ shown(rawData'.items) = dataKeys(data')
        /\ \A i \in 1..Len(rawData'.items) :
             /\ rawData'.items[i].seq.t = "number"
             /\ rawData'.items[i].seq = seqState'.map[dedupeKeys[rawData'.items[i].it]]
        /\ \A i, j \in 1..Len(rawData'.items) :
             i < j => inOrder(rawData'.items, i, j)
        /\ storage' = storage ]_vars

\* a cycle of two new stories whose write failed: both are returned, numbered
\* 2 and 1, and nothing is stored
C15_Witness ==
  /\ data.hasItems
  /\ writeFailed
  /\ Len(rawData.items) = 2
  /\ rawData.items[1].seq = Num(2)
  /\ rawData.items[2].seq = Num(1)
  /\ storage = Absent

\* ------------------------------------------------------------------------
\* C16: dedupeKey returns a non-empty string for every item, an item with no
\* field at all included; every item without cluster_id, canonical_id,
\* canonical_url, url and title gets the one placeholder key "fk:empty", so
\* all such items collapse into a single survivor.
\* ------------------------------------------------------------------------
\* the item carries none of the five identity signals
degenerate(it) ==
  /\ it.cluster_id = None
  /\ it.canonical_id = None
  /\ it.canonical_url = None
  /\ it.url = None
  /\ it.title = None

\* the literal placeholder key
PlaceholderKey == <<"f","k",":","e","m","p","t","y">>

C16_KeyNeverEmpty ==
  pureDone =>
    /\ Len(pureKeys) = Len(pureIn)
    /\ \A i \in 1..Len(pureIn) :
         /\ pureKeys[i] # <<>>
         /\ degenerate(pureIn[i]) => pureKeys[i] = PlaceholderKey
    /\ Cardinality({o \in 1..Len(pureOut) : degenerate(pureOut[o])})
         = IF \E i \in 1..Len(pureIn) : degenerate(pureIn[i]) THEN 1 ELSE 0

\* two different records without any identity signal went in, one came out
C16_Witness ==
  /\ pureDone
  /\ Len(pureIn) = 2
  /\ pureIn[1] # pureIn[2]
  /\ degenerate(pureIn[1])
  /\ degenerate(pureIn[2])
  /\ pureKeys = <<PlaceholderKey, PlaceholderKey>>
  /\ Len(pureOut) = 1

\* ------------------------------------------------------------------------
\* C17: addresses of one page that differ only in letter case, a leading
\* mobile subdomain or a trailing slash normalize to the same string under
\* hostPath, so that items with such urls get the same identity key and
\* collapse to one survivor (https://M.Example.com/Story/ and
\* https://example.com/story normalize identically).
\* ------------------------------------------------------------------------
C17_VariantsNormalizeAlike ==
  pureDone =>
    /\ \A i, j \in 1..Len(pureIn) :
         (pureIn[i].url \in StoryVariants /\ pureIn[j].url \in StoryVariants)
            => /\ hostPath(pureIn[i].url) = hostPath(pureIn[j].url)
               /\ pureKeys[i] = pureKeys[j]
    /\ Cardinality({o \in 1..Len(pureOut) : pureOut[o].url \in StoryVariants}) <= 1

\* ------------------------------------------------------------------------
\* C18: hostPath removes a leading "m." or "mobile." label from the host
\* whenever a further label follows it (m.example.com and mobile.example.com
\* become example.com) and leaves every other host unchanged apart from
\* lower-casing.
\* ------------------------------------------------------------------------
\* the host the claim describes
claimedHost(host) ==
  IF startsWith(host, <<"m",".">>) /\ Len(host) > 2 THEN sliceFrom(host, 2)
  ELSE IF startsWith(host, <<"m","o","b","i","l","e",".">>) /\ Len(host) > 7
    THEN sliceFrom(host, 7)
  ELSE host

\* the key of an item known by its url, the host being the one claimed
claimedUrlKey(u) ==
  <<"u",":">> \o claimedHost(toLowerCase(parseURL(u).host))
             \o stripSlash(parseURL(u).pathname)

C18_MobileLabelRemoved ==
  pureDone =>
    \A i \in 1..Len(pureIn) :
      pureIn[i].url # None => pureKeys[i] = claimedUrlKey(pureIn[i].url)

\* ------------------------------------------------------------------------
\* C19: for a group of items with one key, the left-to-right fold with
\* chooseBetter that dedupeItems runs returns, for every input order, an item
\* that is maximal under (published time, then non-aggregator, then
\* non-paywalled); the survivor is the same for every order unless maximal
\* items tie on all three, and then it is the first of them in the input.
\* For two items chooseBetter(a, b) and chooseBetter(b, a) return the same
\* item unless they tie on all three.
\* ------------------------------------------------------------------------
\* x is ahead of y in the order of the claim
strictlyBetter(x, y) ==
  \/ timeOrZero(x) > timeOrZero(y)
  \/ /\ timeOrZero(x) = timeOrZero(y)
     /\ x \notin aggregators /\ y \in aggregators
  \/ /\ timeOrZero(x) = timeOrZero(y)
     /\ (x \in aggregators) = (y \in aggregators)
     /\ ~x.paywall /\ y.paywall

\* no item of the list is ahead of items[i]
maximalIn(items, i) == \A j \in 1..Len(items) : ~strictlyBetter(items[j], items[i])

\* the first maximal item of a non-empty list
firstMaximal(items) ==
  items[CHOOSE i \in 1..Len(items) :
          maximalIn(items, i) /\ \A j \in 1..(i - 1) : ~maximalIn(items, j)]

\* x and y tie on all three criteria
fullTie(x, y) == ~strictlyBetter(x, y) /\ ~strictlyBetter(y, x)

C19_FoldKeepsFirstMaximal ==
  (pureDone /\ pureIn # <<>>) =>
    /\ pureOut = <<firstMaximal(pureIn)>>
    /\ (Len(pureIn) = 2 /\ ~fullTie(pureIn[1], pureIn[2]))
         => chooseBetter(pureIn[1], pureIn[2]) = chooseBetter(pureIn[2], pureIn[1])

\* ------------------------------------------------------------------------
\* C20: two survivors in one output of normalize carry the same sequence
\* number only if both keys were newly assigned in the assignStableSeq call of
\* that cycle; two keys that had their numbers before the cycle carry
\* different numbers.
\* ------------------------------------------------------------------------
\* the key at position i of the output was given its number in this cycle
newlyAssigned(i) == absentFrom(loaded.map, dedupeKeys[rawData.items[i].it])

C20_SameSeqOnlyIfBothNew ==
  data.hasItems =>
    \A i, j \in 1..Len(rawData.items) :
      i # j =>
        /\ rawData.items[i].seq = rawData.items[j].seq
             => (newlyAssigned(i) /\ newlyAssigned(j))
        /\ (~newlyAssigned(i) /\ ~newlyAssigned(j))
             => rawData.items[i].seq # rawData.items[j].seq

\* ------------------------------------------------------------------------
\* C21: among the keys seen for the first time in one cycle, the sequence
\* numbers follow the order of each key's first occurrence in the incoming
\* list: the key that occurs earlier gets the lower number and stands below
\* the later new key in the output.
\* ------------------------------------------------------------------------
\* position of the first raw item with key k in the incoming list (k occurs)
firstOccurrence(d, k) ==
  CHOOSE i \in 1..Len(d.items) :
    /\ dedupeKeys[d.items[i]] = k
    /\ \A j \in 1..(i - 1) : dedupeKeys[d.items[j]] # k

\* k had no number when the cycle loaded the record
newInCycle(k) == absentFrom(loaded.map, k)

C21_NewKeysInFeedOrder ==
  data.hasItems =>
    \A k1, k2 \in dataKeys(data) :
      (newInCycle(k1) /\ newInCycle(k2)
         /\ firstOccurrence(data, k1) < firstOccurrence(data, k2))
        => /\ numGreater(seqIn(rawData.items, k2), seqIn(rawData.items, k1))
           /\ posIn(rawData.items, k2) < posIn(rawData.items, k1)

\* ------------------------------------------------------------------------
\* C22: on each tick of autoRefresh, normalize (and with it the assignment
\* of sequence numbers) and render run if and only if the fetched data has a
\* non-empty generated_utc different from lastStamp; afterwards lastStamp is
\* that generated_utc.  When the stamp is unchanged or missing, or the fetch
\* fails, rawData, lastStamp and the sequence store are left unchanged.
\* ------------------------------------------------------------------------
\* the step is a tick whose fetch gave data with a new, non-empty stamp
newStampTick ==
  /\ lastEvent'.fetched = "data"
  /\ lastEvent'.stamp # NoStamp
  /\ lastEvent'.stamp # lastStamp

\* normalize ran on the fetched data and render showed its result
normalizedAndRendered ==
  /\ lastEvent'.ran
  /\ rawData'.set
  /\ data'.hasItems =>
       \E r \in {normalize(storage, data'.items, setItemThrows)} :
          rawData'.items = r.items /\ storage' = r.storage
  /\ ~data'.hasItems => (rawData'.items = <<>> /\ storage' = storage)
  /\ grid' = render(rawData', activeCategory, activeRegion)

C22_TickGatedByStamp ==
  [][ lastEvent'.kind = "tick" =>
        IF newStampTick
          THEN normalizedAndRendered /\ lastStamp' = lastEvent'.stamp
          ELSE /\ ~lastEvent'.ran
               /\ UNCHANGED <<rawData, rawStamp, lastStamp, storage, grid>> ]_vars

\* a tick found the new stamp s2: the two stories of its
\* feed are numbered, stored and rendered
C22_Witness ==
  /\ lastEvent = [kind |-> "tick", fetched |-> "data", stamp |-> "s2", ran |-> TRUE]
  /\ booted
  /\ lastStamp = "s2"
  /\ rawStamp = "s2"
  /\ Len(rawData.items) = 2
  /\ storage.kind = "object"
  /\ grid = Shown("cards", rawData.items)

\* ------------------------------------------------------------------------
\* C23: starting from empty storage and with every write succeeding, after
\* any sequence of cycles of a single page the persisted record has a
\* counter equal to the number of keys in its map, the values of the map are
\* exactly the integers 1..counter, each used once, and no key ever leaves
\* the map.
\* ------------------------------------------------------------------------
\* the integers the stored map holds
storedValues(st) == { st.map[k].v : k \in DOMAIN st.map }

\* counter = number of keys, values = 1..counter, one key per value
denseRecord(st) ==
  /\ st.counter.t = "number"
  /\ st.mapKind = "object"
  /\ \A k \in DOMAIN st.map : st.map[k].t = "number"
  /\ st.counter.v = Cardinality(DOMAIN st.map)
  /\ storedValues(st) = 1..st.counter.v
  /\ \A k1, k2 \in DOMAIN st.map : st.map[k1] = st.map[k2] => k1 = k2

\* every key stored before the step is stored after it
keysKept ==
  storage.kind = "object" =>
    /\ storage'.kind = "object"
    /\ DOMAIN storage.map \subseteq DOMAIN storage'.map

C23_DenseAndGrowing ==
  /\ []((~setItemThrows /\ storage.kind = "object") => denseRecord(storage))
  /\ [][~setItemThrows => keysKept]_vars

\* three keys are stored, numbered 1..3, while the last feed held one of them
C23_Witness ==
  /\ ~setItemThrows
  /\ storage.kind = "object"
  /\ Cardinality(DOMAIN storage.map) = 3
  /\ storage.counter = Num(3)
  /\ data.hasItems
  /\ Cardinality(dataKeys(data)) = 1

\* ------------------------------------------------------------------------
\* C24: changing the category or region filter and re-rendering never
\* re-sorts or re-deduplicates: render shows a subsequence of the last
\* normalized list in the same relative order, and a click on a filter
\* neither reads nor writes the sequence store nor changes the sequence
\* number of any item.
\* ------------------------------------------------------------------------
\* position of the card e in the list items, 0 if it is not there
placeIn(items, e) ==
  IF \E i \in 1..Len(items) : items[i] = e
    THEN CHOOSE i \in 1..Len(items) : items[i] = e
    ELSE 0

\* the cards are items of the list, each once, in the order of the list
subsequenceOf(cards, items) ==
  /\ \A i \in 1..Len(cards) : placeIn(items, cards[i]) > 0
  /\ \A i, j \in 1..Len(cards) :
       i < j => placeIn(items, cards[i]) < placeIn(items, cards[j])

\* a click leaves the list, the numbers and the store alone
clickLeavesOrderAlone ==
  /\ UNCHANGED <<rawData, rawStamp, lastStamp, storage>>
  /\ UNCHANGED <<data, loaded, seqState, touched, saveCalled, writeFailed>>
  /\ subsequenceOf(grid'.cards, rawData.items)

C24_FiltersKeepOrder ==
  /\ [](subsequenceOf(grid.cards, rawData.items))
  /\ [][lastEvent'.kind = "click" => clickLeavesOrderAlone]_vars

\* after a click two of the three listed stories are shown, in the order of
\* the list
C24_Witness ==
  /\ lastEvent.kind = "click"
  /\ Len(rawData.items) = 3
  /\ grid.kind = "cards"
  /\ Len(grid.cards) = 2
  /\ activeCategory = "Sports"
====
